---- MODULE Spec2Model ----
(***************************************************************************)
(* The inode of geesefs (internal/handles.go): remote reconciliation,      *)
(* reference counting and the xattr surface, together with the parts of    *)
(* the buffer engine and of the flusher that the inode relies on.          *)
(*                                                                         *)
(* Strings are sequences of one-character strings, so that prefix tests,   *)
(* slicing, lower-casing and URL-unescaping are computed, not assumed.     *)
(* A Go pointer or a nillable map is an option: <<>> is nil, <<v>> holds v.*)
(***************************************************************************)
EXTENDS Integers, Sequences, FiniteSets, TLC

VARIABLES
    inode,          \* the fields of one Inode that inode.mu protects
    refcnt,         \* Inode.refcnt, accessed atomically
    fsInodes,       \* the ids in fs.inodes
    forgotCnt,      \* fs.forgotCnt
    lfruTracked,    \* the ids fs.lfru tracks
    flusherWoken,   \* a WakeupFlusher signal is pending
    nWrites,        \* writes so far; dirtyIDs are drawn from it
    flusher,        \* the flusher thread's position and snapshot
    heads,          \* xattr calls waiting for their HEAD, inode.mu dropped
    deref,          \* a DeRef between its atomic add and the rest
    panicked,       \* the process has aborted
    lastETag,       \* the ETag of the most recent accepted remote response
    flags,          \* fs.flags, fixed at mount
    callerBuf,      \* the bytes of the buffer last passed to SetXattr
    locks,          \* who holds each inode.mu and fs.mu, and where each thread is
    attrs,          \* Attributes.Mode and Rdev, with the mode options of fs.flags
    tree,           \* the inode's ancestors from the root down, and the inode
    last            \* the step just taken: the call, its inputs and its result

vars == <<inode, refcnt, fsInodes, forgotCnt, lfruTracked, flusherWoken,
          nWrites, flusher, heads, deref, panicked, lastETag, flags, callerBuf,
          locks, attrs, tree, last>>

----------------------------------------------------------------------------
(* Bounds of the model *)

MaxSize == 1
MaxRef == 2
MaxWrites == 1
MaxHeads == 1
MaxForgot == 1
MaxThreads == 2
MaxLockInodes == 2
\* the depth of the deepest inode, the root being at depth 1
MaxDepth == 3

----------------------------------------------------------------------------
(* Program constants *)

ST_CACHED == 0
ST_CREATED == 1
ST_MODIFIED == 2
ST_DELETED == 3

BUF_CLEAN == 1
BUF_DIRTY == 2
BUF_FLUSHED_FULL == 3
BUF_FLUSHED_CUT == 4
BUF_FL_CLEARED == 5

XATTR_CREATE == 1
XATTR_REPLACE == 2

InodeId == 1

\* fs.rootAttrs.Ctime, and the zero time.Time
RootCtime == 9
ZeroTime == 0

\* fs.flags: the attribute names
MtimeAttr == <<"m", "t", "i", "m", "e">>
SymlinkAttr == <<"l", "n", "k">>

\* cloud.Capabilities().Name
BackendName == <<"s", "3">>

----------------------------------------------------------------------------
(* Options, maps, strings *)

None == <<>>
Some(v) == <<v>>
IsNil(o) == Len(o) = 0
Val(o) == o[1]

EmptyMap == [k \in {} |-> <<>>]
MapPut(m, k, v) == [a \in (DOMAIN m) \cup {k} |-> IF a = k THEN v ELSE m[a]]
MapDel(m, k) == [a \in (DOMAIN m) \ {k} |-> m[a]]

HasPrefix(s, p) == Len(s) >= Len(p) /\ SubSeq(s, 1, Len(p)) = p
Drop(s, n) == SubSeq(s, n + 1, Len(s))

UpperChars == <<"A", "B", "C", "D", "E", "F", "M">>
LowerChars == <<"a", "b", "c", "d", "e", "f", "m">>
LowerChar(c) ==
    IF \E j \in 1..Len(UpperChars) : UpperChars[j] = c
    THEN LowerChars[CHOOSE j \in 1..Len(UpperChars) : UpperChars[j] = c]
    ELSE c
ToLower(s) == [j \in 1..Len(s) |-> LowerChar(s[j])]

HexDigits == <<"0", "1", "2", "3", "4", "5", "6", "7", "8", "9",
               "a", "b", "c", "d", "e", "f">>
IsHex(c) == \E j \in 1..Len(HexDigits) : HexDigits[j] = LowerChar(c)
HexVal(c) == (CHOOSE j \in 1..Len(HexDigits) : HexDigits[j] = LowerChar(c)) - 1
\* the characters of the model's alphabet by code
ByteChar(n) ==
    CASE n = 37 -> "%"
      [] n = 47 -> "/"
      [] n = 50 -> "2"
      [] n = 65 -> "A"
      [] n = 70 -> "F"
      [] n = 97 -> "a"
      [] n = 98 -> "b"
      [] n = 102 -> "f"
      [] OTHER -> "?"

\* url.PathUnescape: [ok, s]; "%" must be followed by two hex digits
RECURSIVE PathUnescape(_)
PathUnescape(s) ==
    IF Len(s) = 0 THEN [ok |-> TRUE, s |-> <<>>]
    ELSE IF s[1] = "%"
    THEN IF Len(s) >= 3 /\ IsHex(s[2]) /\ IsHex(s[3])
         THEN LET rest == PathUnescape(Drop(s, 3))
              IN  [ok |-> rest.ok,
                   s |-> <<ByteChar(16 * HexVal(s[2]) + HexVal(s[3]))>> \o rest.s]
         ELSE [ok |-> FALSE, s |-> <<>>]
    ELSE LET rest == PathUnescape(Drop(s, 1))
         IN  [ok |-> rest.ok, s |-> <<s[1]>> \o rest.s]

DecDigits == <<"0", "1", "2", "3", "4", "5", "6", "7", "8", "9">>
IsDec(c) == \E j \in 1..Len(DecDigits) : DecDigits[j] = c
DecVal(c) == (CHOOSE j \in 1..Len(DecDigits) : DecDigits[j] = c) - 1
RECURSIVE DecNum(_)
DecNum(s) == IF Len(s) = 0 THEN 0
             ELSE 10 * DecNum(SubSeq(s, 1, Len(s) - 1)) + DecVal(s[Len(s)])
\* strconv.ParseUint(s, 0, 64) on plain decimal text: [ok, n]
ParseUint(s) ==
    IF Len(s) > 0 /\ (\A j \in 1..Len(s) : IsDec(s[j])) /\ (Len(s) = 1 \/ s[1] # "0")
    THEN [ok |-> TRUE, n |-> DecNum(s)]
    ELSE [ok |-> FALSE, n |-> 0]

\* unescapeMetadata: lower-cased, unescaped keys; entries that do not unescape
\* are dropped. (The inputs hold one entry per lower-cased key.)
unescapeMetadata(meta) ==
    LET good == {k \in DOMAIN meta :
                    PathUnescape(ToLower(k)).ok /\ PathUnescape(meta[k]).ok}
        keys == {PathUnescape(ToLower(k)).s : k \in good}
    IN  [uk \in keys |->
            LET k == CHOOSE k \in good : PathUnescape(ToLower(k)).s = uk
            IN  PathUnescape(meta[k]).s]

----------------------------------------------------------------------------
(* Byte slices. A slice stored in a metadata map either owns its bytes or  *)
(* shares them with the buffer the caller of SetXattr passed in.           *)

Bytes(d) == [data |-> d, shared |-> FALSE]
Alias(d) == [data |-> d, shared |-> TRUE]
\* Dup: a fresh copy of the caller's bytes
Dup(value) == Bytes(value)

KeyEtag == <<"e", "t", "a", "g">>
KeyStorageClass == <<"s", "t", "o", "r", "a", "g", "e", "-", "c", "l", "a", "s", "s">>
StandardClass == <<"S", "T", "A", "N", "D", "A", "R", "D">>

----------------------------------------------------------------------------
(* Buffer chunks and the buffer-range engine *)

Chunk(off, len, st, z, id) ==
    [offset |-> off, length |-> len, state |-> st, zero |-> z, dirtyID |-> id]
ChunkEnd(b) == b.offset + b.length
BuffersEnd(bufs) == IF Len(bufs) = 0 THEN 0 ELSE ChunkEnd(bufs[Len(bufs)])

\* the chunks of bufs cut down to [0, newSize)
RECURSIVE TruncateBuffers(_, _)
TruncateBuffers(bufs, newSize) ==
    IF Len(bufs) = 0 THEN <<>>
    ELSE LET b == bufs[Len(bufs)]
             front == SubSeq(bufs, 1, Len(bufs) - 1)
         IN  IF b.offset >= newSize THEN TruncateBuffers(front, newSize)
             ELSE IF ChunkEnd(b) > newSize
             THEN Append(front, [b EXCEPT !.length = newSize - b.offset])
             ELSE bufs

\* SetCacheState: the dedicated setter of CacheState
SetCacheState(i, state) == [i EXCEPT !.CacheState = state]

\* resetCache: every buffer released, multipart state cleared, CACHED
resetCache(i) == SetCacheState([i EXCEPT !.buffers = <<>>], ST_CACHED)

\* ResizeUnlocked: the buffer list extended by one zero chunk, or cut, so that
\* it covers [0, newSize)
ResizeUnlocked(i, newSize, zeroFill, reset) ==
    LET bufs == IF reset THEN <<>> ELSE i.buffers
        end == BuffersEnd(bufs)
        resized ==
            IF newSize > end
            THEN Append(bufs, Chunk(end, newSize - end, BUF_CLEAN, TRUE, 0))
            ELSE TruncateBuffers(bufs, newSize)
    IN  [i EXCEPT !.buffers = resized, !.Size = newSize]

----------------------------------------------------------------------------
(* Metadata *)

\* setMetadata: the parsed map replaces userMetadata; with EnableMtime a
\* parseable mtime attribute sets Mtime
setMetadata(i, metadata, fl) ==
    LET um == unescapeMetadata(metadata)
        parsed == [k \in DOMAIN um |-> Bytes(um[k])]
        withMeta == [i EXCEPT !.userMetadata = Some(parsed)]
    IN  IF fl.EnableMtime /\ MtimeAttr \in DOMAIN um /\ ParseUint(um[MtimeAttr]).ok
        THEN [withMeta EXCEPT !.Mtime = ParseUint(um[MtimeAttr]).n]
        ELSE withMeta

\* fillXattrFromHead
fillXattrFromHead(i, resp, fl) ==
    LET withETag ==
            IF ~IsNil(resp.ETag)
            THEN [i EXCEPT !.s3Metadata = MapPut(@, KeyEtag, Bytes(Val(resp.ETag)))]
            ELSE i
        withClass ==
            [withETag EXCEPT !.s3Metadata =
                MapPut(@, KeyStorageClass,
                       IF ~IsNil(resp.StorageClass)
                       THEN Bytes(Val(resp.StorageClass))
                       ELSE Bytes(StandardClass))]
    IN  setMetadata(withClass, resp.Metadata, fl)

----------------------------------------------------------------------------
(* Remote reconciliation *)

\* the test with || bound tighter than &&: no conflict without an ETag
ConflictNeedsETag(i, item) ==
    ~IsNil(item.ETag) /\ (i.knownETag # Val(item.ETag) \/ item.Size # i.knownSize)

\* the test of SetFromBlobItem: && binds tighter than ||
SetFromBlobItemConflict(i, item) ==
    \/ (~IsNil(item.ETag) /\ i.knownETag # Val(item.ETag))
    \/ item.Size # i.knownSize

\* the inode resized with its buffers kept
ResizeWithoutReset(i, item) ==
    ResizeUnlocked(i, item.Size, FALSE, FALSE)

\* the inode marked CACHED and resized with its buffers kept
MarkCachedWithoutReset(i, item) ==
    ResizeUnlocked(SetCacheState(i, ST_CACHED), item.Size, FALSE, FALSE)

\* the local cache is dropped and the inode resized to the observed size
SetFromBlobItemDrop(i, item) ==
    ResizeUnlocked(resetCache(i), item.Size, FALSE, FALSE)

\* knownSize and the times
SetFromBlobItemStamp(i, item) ==
    LET modTime == IF ~IsNil(item.LastModified) THEN Val(item.LastModified)
                   ELSE RootCtime
    IN  [i EXCEPT !.knownSize = item.Size, !.Mtime = modTime, !.Ctime = modTime]

\* the observed metadata stored, userMetadataDirty left as it was
MetadataLeftDirty(i, item, fl) ==
    IF ~IsNil(item.Metadata) THEN setMetadata(i, Val(item.Metadata), fl) ELSE i

\* the observed metadata, when there is any
SetFromBlobItemMetadata(i, item, fl) ==
    IF ~IsNil(item.Metadata)
    THEN [setMetadata(i, Val(item.Metadata), fl) EXCEPT !.userMetadataDirty = 0]
    ELSE i

\* s3Metadata["etag"] and knownETag
SetFromBlobItemETag(i, item) ==
    IF ~IsNil(item.ETag)
    THEN [i EXCEPT !.s3Metadata = MapPut(@, KeyEtag, Bytes(Val(item.ETag))),
                   !.knownETag = Val(item.ETag)]
    ELSE [i EXCEPT !.s3Metadata = MapDel(@, KeyEtag)]

\* s3Metadata["storage-class"]
SetFromBlobItemClass(i, item) ==
    IF ~IsNil(item.StorageClass)
    THEN [i EXCEPT !.s3Metadata =
             MapPut(@, KeyStorageClass, Bytes(Val(item.StorageClass)))]
    ELSE [i EXCEPT !.s3Metadata = MapDel(@, KeyStorageClass)]

\* the body of SetFromBlobItem under inode.mu
SetFromBlobItem(i, item, fl) ==
    LET reconciled ==
            IF SetFromBlobItemConflict(i, item)
            THEN SetFromBlobItemMetadata(
                     SetFromBlobItemStamp(SetFromBlobItemDrop(i, item), item),
                     item, fl)
            ELSE i
    IN  SetFromBlobItemClass(SetFromBlobItemETag(reconciled, item), item)

----------------------------------------------------------------------------
(* The state *)

\* NewInode, then registered by its first lookup (cached) or by create
NewInode(state, isDir) ==
    [isDir |-> isDir, ImplicitDir |-> FALSE,
     CacheState |-> state, buffers |-> <<>>,
     Size |-> 0, Mtime |-> ZeroTime, Ctime |-> ZeroTime,
     userMetadataDirty |-> 0, userMetadata |-> None, s3Metadata |-> EmptyMap,
     knownSize |-> 0, knownETag |-> <<>>]

NoLast == [op |-> "none"]
IdleFlusher == [pc |-> "idle"]
IdleDeRef == [pc |-> "idle"]

\* threads that call into inodes, and the inodes they call into
Threads == 1..MaxThreads
LockInodes == 1..MaxLockInodes

\* a thread outside every call
IdleThread == [op |-> "none", inode |-> 0, at |-> 0]

\* os.FileMode, a set of bit positions: the type bits and the permission bits
ModeDir == {31}
ModeSymlink == {27}
ModeDevice == {26}
ModeNamedPipe == {25}
ModeSocket == {24}
ModeCharDevice == {21}
ModeIrregular == {19}
ModeType ==
    ModeDir \cup ModeSymlink \cup ModeNamedPipe \cup ModeSocket \cup ModeDevice
        \cup ModeCharDevice \cup ModeIrregular
ModePerm == 0..8

\* 0644 and 0755
Perm644 == {8, 7, 5, 2}
Perm755 == {8, 7, 6, 5, 3, 2, 0}

\* fs.flags: the default modes and the attribute names of mode and rdev
DirMode == Perm755
FileMode == Perm644
FileModeAttr == <<"m", "o", "d", "e">>
RdevAttr == <<"r", "d", "e", "v">>

\* the mode a new inode of a kind has, no device number, both options off
DefaultAttrs(isDir) ==
    [Mode |-> IF isDir THEN DirMode \cup ModeDir ELSE FileMode, Rdev |-> 0,
     EnableSpecials |-> FALSE, EnablePerms |-> FALSE]

\* inode.dir: no directory record, or one with or without a backend binding
NoDir == None
DirState(cloud, mountPrefix) == Some([cloud |-> cloud, mountPrefix |-> mountPrefix])

\* a StorageBackend: a plain backend, the StorageBackendInitError sentinel, or
\* a StorageBackendInitWrapper whose Init("") succeeds or fails
Backend(kind, initOK) == [kind |-> kind, initOK |-> initOK]
PlainBackend == Backend("backend", TRUE)

\* the root directory, bound to the backend of the mount with an empty prefix
RootNode == [Name |-> <<>>, dir |-> DirState(Some(PlainBackend), <<>>)]

\* the inode named "a" in the root directory
DefaultTree(isDir) ==
    <<RootNode, [Name |-> <<"a">>, dir |-> IF isDir THEN DirState(None, <<>>) ELSE NoDir]>>

\* no lock is held, no thread is in a call
NoLocks ==
    [mu |-> [i \in LockInodes |-> 0], fsmu |-> 0, pc |-> [t \in Threads |-> IdleThread]]

InitInode(states, dirs, mtimeFlags) ==
    /\ inode \in {NewInode(st, d) : st \in states, d \in dirs}
    /\ refcnt = 1
    /\ fsInodes = {InodeId}
    /\ forgotCnt = 0
    /\ lfruTracked = {InodeId}
    /\ flusherWoken = FALSE
    /\ nWrites = 0
    /\ flusher = IdleFlusher
    /\ heads = {}
    /\ deref = IdleDeRef
    /\ panicked = FALSE
    /\ lastETag = <<>>
    /\ flags \in {[EnableMtime |-> m] : m \in mtimeFlags}
    /\ callerBuf = <<>>
    /\ locks = NoLocks
    /\ last = NoLast

\* the inode with the default mode of its kind, one level below the root
InitWith(states, dirs, mtimeFlags) ==
    /\ InitInode(states, dirs, mtimeFlags)
    /\ attrs = DefaultAttrs(inode.isDir)
    /\ tree = DefaultTree(inode.isDir)

\* inode.mu is free: no DeRef caller is between its steps (every other
\* holder takes and releases it within one step)
MuFree == deref.pc = "idle"
InTable == InodeId \in fsInodes
Running == ~panicked

\* what a recorded call remembers of the inode it found
FoundByReconcile ==
    [CacheState |-> inode.CacheState,
     dirtyBuffers |-> \E j \in 1..Len(inode.buffers) :
                         inode.buffers[j].state = BUF_DIRTY,
     knownETag |-> inode.knownETag, knownSize |-> inode.knownSize]
FoundByDeRef ==
    [CacheState |-> inode.CacheState, buffered |-> Len(inode.buffers) > 0,
     inTable |-> InTable]
FoundByXattr == [CacheState |-> inode.CacheState, woken |-> flusherWoken]

Record(rec, r) == IF rec THEN r ELSE NoLast

----------------------------------------------------------------------------
(* SetFromBlobItem, called with a listing or lookup observation *)

SetFromBlobItemCall(item, rec) ==
    /\ Running /\ MuFree
    /\ inode' = SetFromBlobItem(inode, item, flags)
    /\ lastETag' = IF ~IsNil(item.ETag) THEN Val(item.ETag) ELSE lastETag
    /\ last' = Record(rec, [op |-> "SetFromBlobItem", item |-> item,
                            found |-> FoundByReconcile])
    /\ UNCHANGED <<refcnt, fsInodes, forgotCnt, lfruTracked, flusherWoken, nWrites,
                   flusher, heads, deref, panicked, flags, locks, attrs, tree, callerBuf>>

----------------------------------------------------------------------------
(* Ref and DeRef *)

Ref ==
    /\ Running
    /\ refcnt < MaxRef
    /\ refcnt' = refcnt + 1
    /\ last' = NoLast
    /\ UNCHANGED <<inode, fsInodes, forgotCnt, lfruTracked, flusherWoken, nWrites,
                   flusher, heads, deref, panicked, lastETag, flags, locks, attrs, tree, callerBuf>>

\* DeRef, first step: the caller holds inode.mu; atomic.AddInt64(&refcnt, -n)
DeRefAdd(n) ==
    /\ Running /\ MuFree
    /\ forgotCnt < MaxForgot
    /\ refcnt' = refcnt - n
    /\ deref' = [pc |-> "added", n |-> n, res |-> refcnt - n]
    /\ last' = NoLast
    /\ UNCHANGED <<inode, fsInodes, forgotCnt, lfruTracked, flusherWoken, nWrites,
                   flusher, heads, panicked, lastETag, flags, locks, attrs, tree, callerBuf>>

\* the inode forgotten at zero whatever its cache state
ForgetsAtZero(res, i) == res = 0

\* the inode forgotten at zero while it still has something to flush
ForgetsUnflushed(res, i) == res = 0 /\ i.CacheState # ST_CACHED

\* the inode is forgotten: the count is at zero and nothing is left to flush
DeRefForgets(res, i) == res = 0 /\ i.CacheState = ST_CACHED

\* DeRef, the rest: the panic on a negative result, or the forget
DeRefRest(rec) ==
    /\ Running
    /\ deref.pc = "added"
    /\ deref' = IdleDeRef
    /\ last' = Record(rec, [op |-> "DeRef", n |-> deref.n, res |-> deref.res,
                            found |-> FoundByDeRef])
    /\ IF deref.res < 0
       THEN /\ panicked' = TRUE
            /\ UNCHANGED <<inode, fsInodes, forgotCnt, lfruTracked>>
       ELSE /\ panicked' = FALSE
            /\ IF DeRefForgets(deref.res, inode)
               THEN /\ inode' = resetCache(inode)
                    /\ fsInodes' = fsInodes \ {InodeId}
                    /\ forgotCnt' = forgotCnt + 1
                    /\ lfruTracked' = lfruTracked \ {InodeId}
               ELSE UNCHANGED <<inode, fsInodes, forgotCnt, lfruTracked>>
    /\ UNCHANGED <<refcnt, flusherWoken, nWrites, flusher, heads, lastETag, flags, locks, attrs, tree,
                   callerBuf>>

----------------------------------------------------------------------------
(* Writes and unlink, as far as the inode's cache state and buffers go *)

\* the part of chunk b left of off and the part right of end; a DIRTY chunk
\* that is split gets new dirtyIDs
LeftPart(b, off, id) ==
    IF b.offset < off
    THEN <<[b EXCEPT !.length = off - b.offset,
                     !.dirtyID = IF b.state = BUF_DIRTY /\ ChunkEnd(b) > off
                                 THEN id ELSE b.dirtyID]>>
    ELSE <<>>
RightPart(b, end, id) ==
    IF ChunkEnd(b) > end
    THEN <<[b EXCEPT !.offset = end, !.length = ChunkEnd(b) - end,
                     !.dirtyID = IF b.state = BUF_DIRTY /\ b.offset < end
                                 THEN id ELSE b.dirtyID]>>
    ELSE <<>>

RECURSIVE Overlay(_, _, _, _)
\* bufs with [off, end) cut out; id + 1 and id + 2 name split halves
Overlay(bufs, off, end, id) ==
    IF Len(bufs) = 0 THEN <<>>
    ELSE LET b == bufs[1]
             rest == Overlay(Tail(bufs), off, end, id)
         IN  IF ChunkEnd(b) <= off \/ b.offset >= end THEN <<b>> \o rest
             ELSE LeftPart(b, off, id + 1) \o RightPart(b, end, id + 2) \o rest

RECURSIVE InsertChunk(_, _)
InsertChunk(bufs, c) ==
    IF Len(bufs) = 0 THEN <<c>>
    ELSE IF bufs[1].offset >= c.offset THEN <<c>> \o bufs
    ELSE <<bufs[1]>> \o InsertChunk(Tail(bufs), c)

\* a write over a FLUSHED_CUT part abandons the multipart upload: the parts
\* still in memory are dirty again
AbandonParts(bufs) ==
    [j \in 1..Len(bufs) |->
        IF bufs[j].state \in {BUF_FLUSHED_FULL, BUF_FLUSHED_CUT}
        THEN [bufs[j] EXCEPT !.state = BUF_DIRTY] ELSE bufs[j]]

\* writeBuffer: [off, off + len) covered by a DIRTY chunk with a fresh dirtyID
writeBuffer(bufs, off, len, id) ==
    LET hitsCut == \E j \in 1..Len(bufs) :
                      /\ bufs[j].state = BUF_FLUSHED_CUT
                      /\ bufs[j].offset < off + len /\ ChunkEnd(bufs[j]) > off
        base == IF hitsCut THEN AbandonParts(bufs) ELSE bufs
    IN  InsertChunk(Overlay(base, off, off + len, id),
                    Chunk(off, len, BUF_DIRTY, FALSE, id))

WriteFile(off) ==
    /\ Running /\ MuFree /\ InTable
    /\ nWrites < MaxWrites
    /\ off <= inode.Size /\ off < MaxSize
    /\ inode.CacheState # ST_DELETED
    /\ LET id == 3 * nWrites + 1
           written == [inode EXCEPT
                          !.buffers = writeBuffer(@, off, 1, id),
                          !.Size = IF off + 1 > @ THEN off + 1 ELSE @]
       IN  inode' = IF inode.CacheState = ST_CACHED
                    THEN SetCacheState(written, ST_MODIFIED) ELSE written
    /\ nWrites' = nWrites + 1
    /\ flusherWoken' = TRUE
    /\ last' = NoLast
    /\ UNCHANGED <<refcnt, fsInodes, forgotCnt, lfruTracked, flusher, heads, deref,
                   panicked, lastETag, flags, locks, attrs, tree, callerBuf>>

Unlink ==
    /\ Running /\ MuFree /\ InTable
    /\ inode.CacheState \in {ST_CACHED, ST_MODIFIED}
    /\ inode' = SetCacheState(inode, ST_DELETED)
    /\ flusherWoken' = TRUE
    /\ last' = NoLast
    /\ UNCHANGED <<refcnt, fsInodes, forgotCnt, lfruTracked, nWrites, flusher, heads,
                   deref, panicked, lastETag, flags, locks, attrs, tree, callerBuf>>

----------------------------------------------------------------------------
(* The flusher, as the inode sees it. Every remote call is made with       *)
(* inode.mu dropped; its result is published only if the snapshot taken    *)
(* before the call still describes the inode.                              *)

Unflushed(i) == i.CacheState \in {ST_CREATED, ST_MODIFIED}
HasState(bufs, states) == \E j \in 1..Len(bufs) : bufs[j].state \in states
DirtyIDs(bufs) == [j \in 1..Len(bufs) |-> bufs[j].dirtyID]
FlushedStates == {BUF_FLUSHED_FULL, BUF_FLUSHED_CUT, BUF_FL_CLEARED}

\* a dirty chunk is picked and its dirtyID noted; the part upload starts
FlushPartStart ==
    /\ Running /\ MuFree
    /\ flusher.pc = "idle"
    /\ Unflushed(inode)
    /\ \E j \in 1..Len(inode.buffers) :
          /\ inode.buffers[j].state = BUF_DIRTY
          /\ flusher' = [pc |-> "part", snap |-> inode.buffers[j].dirtyID]
    /\ flusherWoken' = FALSE
    /\ last' = NoLast
    /\ UNCHANGED <<inode, refcnt, fsInodes, forgotCnt, lfruTracked, nWrites, heads,
                   deref, panicked, lastETag, flags, locks, attrs, tree, callerBuf>>

\* the part is uploaded: the chunk is FLUSHED_FULL or FLUSHED_CUT if it is
\* still the version that was sent
FlushPartDone(state) ==
    /\ Running /\ MuFree
    /\ flusher.pc = "part"
    /\ flusher' = IdleFlusher
    /\ inode' =
         IF Unflushed(inode)
         THEN [inode EXCEPT !.buffers =
                 [j \in 1..Len(@) |->
                    IF @[j].state = BUF_DIRTY /\ @[j].dirtyID = flusher.snap
                    THEN [@[j] EXCEPT !.state = state] ELSE @[j]]]
         ELSE inode
    /\ last' = NoLast
    /\ UNCHANGED <<refcnt, fsInodes, forgotCnt, lfruTracked, flusherWoken, nWrites,
                   heads, deref, panicked, lastETag, flags, locks, attrs, tree, callerBuf>>

\* memory pressure: a FLUSHED_FULL chunk leaves memory
Evict ==
    /\ Running /\ MuFree
    /\ \E j \in 1..Len(inode.buffers) :
          /\ inode.buffers[j].state = BUF_FLUSHED_FULL
          /\ inode' = [inode EXCEPT !.buffers[j].state = BUF_FL_CLEARED]
    /\ last' = NoLast
    /\ UNCHANGED <<refcnt, fsInodes, forgotCnt, lfruTracked, flusherWoken, nWrites,
                   flusher, heads, deref, panicked, lastETag, flags, locks, attrs, tree, callerBuf>>

\* the final request starts: a PUT of the whole object, or the completion
\* of the multipart upload once nothing is dirty
FlushFinalStart ==
    /\ Running /\ MuFree
    /\ flusher.pc = "idle"
    /\ Unflushed(inode)
    /\ ~(HasState(inode.buffers, {BUF_DIRTY}) /\ HasState(inode.buffers, FlushedStates))
    /\ flusher' = [pc |-> "final", ids |-> DirtyIDs(inode.buffers),
                   meta |-> inode.userMetadata]
    /\ flusherWoken' = FALSE
    /\ last' = NoLast
    /\ UNCHANGED <<inode, refcnt, fsInodes, forgotCnt, lfruTracked, nWrites, heads,
                   deref, panicked, lastETag, flags, locks, attrs, tree, callerBuf>>

\* the inode after an accepted final response carrying etag
Flushed(i, etag) ==
    LET bufs == IF HasState(i.buffers, FlushedStates) THEN <<>>
                ELSE [j \in 1..Len(i.buffers) |->
                        [i.buffers[j] EXCEPT !.state = BUF_CLEAN, !.dirtyID = 0]]
    IN  SetCacheState(
            [i EXCEPT !.buffers = bufs,
                      !.s3Metadata = MapPut(@, KeyEtag, Bytes(etag)),
                      !.knownETag = etag,
                      !.knownSize = i.Size,
                      !.userMetadataDirty = 0],
            ST_CACHED)

\* the final response: accepted if nothing changed meanwhile
FlushFinalDone(etag) ==
    /\ Running /\ MuFree
    /\ flusher.pc = "final"
    /\ LET accepted == /\ Unflushed(inode)
                       /\ DirtyIDs(inode.buffers) = flusher.ids
                       /\ inode.userMetadata = flusher.meta
       IN  IF accepted
           THEN /\ inode' = Flushed(inode, etag)
                /\ lastETag' = etag
                /\ flusher' = [pc |-> "reap"]
                /\ UNCHANGED flusherWoken
           ELSE /\ flusher' = IdleFlusher
                /\ flusherWoken' = TRUE
                /\ UNCHANGED <<inode, lastETag>>
    /\ last' = NoLast
    /\ UNCHANGED <<refcnt, fsInodes, forgotCnt, lfruTracked, nWrites, heads, deref,
                   panicked, flags, locks, attrs, tree, callerBuf>>

\* after the final flush the flusher drops an inode nobody references
FlushReap ==
    /\ Running /\ MuFree
    /\ flusher.pc = "reap"
    /\ flusher' = IdleFlusher
    /\ IF refcnt = 0 /\ inode.CacheState = ST_CACHED /\ InTable
       THEN /\ inode' = resetCache(inode)
            /\ fsInodes' = fsInodes \ {InodeId}
            /\ forgotCnt' = forgotCnt + 1
            /\ lfruTracked' = lfruTracked \ {InodeId}
       ELSE UNCHANGED <<inode, fsInodes, forgotCnt, lfruTracked>>
    /\ last' = [op |-> "FlushReap",
                 reaped |-> refcnt = 0 /\ inode.CacheState = ST_CACHED /\ InTable]
    /\ UNCHANGED <<refcnt, flusherWoken, nWrites, heads, deref, panicked, lastETag,
                   flags, locks, attrs, tree, callerBuf>>

----------------------------------------------------------------------------
(* The xattr surface *)

UserPrefix == <<"u", "s", "e", "r", ".">>

\* a name outside both namespaces answered with ENOSYS whoever asks
RouteOthersENOSYS(name, userOnly) ==
    LET xattrPrefix == BackendName \o <<".">>
    IN  IF HasPrefix(name, xattrPrefix)
        THEN IF userOnly THEN [kind |-> "err", err |-> "EPERM"]
             ELSE [kind |-> "s3", newName |-> Drop(name, Len(xattrPrefix))]
        ELSE IF HasPrefix(name, UserPrefix) /\ name # UserPrefix \o SymlinkAttr
        THEN [kind |-> "user", newName |-> Drop(name, 5)]
        ELSE [kind |-> "err", err |-> "ENOSYS"]

\* getXattrMap up to its call of fillXattr: which map the name addresses
XattrRoute(name, userOnly) ==
    LET xattrPrefix == BackendName \o <<".">>
    IN  IF HasPrefix(name, xattrPrefix)
        THEN IF userOnly THEN [kind |-> "err", err |-> "EPERM"]
             ELSE [kind |-> "s3", newName |-> Drop(name, Len(xattrPrefix))]
        ELSE IF HasPrefix(name, UserPrefix) /\ name # UserPrefix \o SymlinkAttr
        THEN [kind |-> "user", newName |-> Drop(name, 5)]
        ELSE [kind |-> "err", err |-> IF userOnly THEN "EPERM" ELSE "ENOSYS"]

\* fillXattr issues a HEAD
NeedsHead(i) == ~i.ImplicitDir /\ IsNil(i.userMetadata)

\* the HEAD response applied whatever userMetadata holds by now
AfterHeadApplies(i, resp, fl) ==
    IF resp.err # "OK"
    THEN IF resp.err = "ENOENT"
         THEN [inode |-> IF i.isDir THEN [i EXCEPT !.ImplicitDir = TRUE] ELSE i,
               err |-> "OK"]
         ELSE [inode |-> i, err |-> resp.err]
    ELSE [inode |-> fillXattrFromHead(i, resp, fl), err |-> "OK"]

\* fillXattr after the HEAD, inode.mu taken again: [inode, err]
AfterHead(i, resp, fl) ==
    IF resp.err # "OK"
    THEN IF resp.err = "ENOENT"
         THEN [inode |-> IF i.isDir THEN [i EXCEPT !.ImplicitDir = TRUE] ELSE i,
               err |-> "OK"]
         ELSE [inode |-> i, err |-> resp.err]
    ELSE IF IsNil(i.userMetadata)
    THEN [inode |-> fillXattrFromHead(i, resp, fl), err |-> "OK"]
    ELSE [inode |-> i, err |-> "OK"]

\* the map getXattrMap returns for a route, nil or not
RouteMap(i, route) ==
    IF route.kind = "s3" THEN Some(i.s3Metadata) ELSE i.userMetadata

Outcome(i, err, ret, wake) == [inode |-> i, err |-> err, ret |-> ret, wake |-> wake]

\* the caller's slice stored as it is
SharedValue(value) == Alias(value)

\* the slice SetXattr stores: a copy of the caller's bytes
StoredValue(value) == Dup(value)

\* the value stored and marked dirty, the cache state and the flusher left alone
StoreWithoutWakeup(i, key, value, xflags) ==
    Outcome([i EXCEPT !.userMetadata =
                        Some(MapPut(Val(i.userMetadata), key, StoredValue(value))),
                      !.userMetadataDirty = 2], "OK", None, FALSE)

\* the value stored whatever the flags say
StoreIgnoringFlags(i, key, value, xflags) ==
    LET stored == [i EXCEPT !.userMetadata =
                              Some(MapPut(Val(i.userMetadata), key, StoredValue(value))),
                            !.userMetadataDirty = 2]
    IN  IF i.CacheState = ST_CACHED
        THEN Outcome(SetCacheState(stored, ST_MODIFIED), "OK", None, TRUE)
        ELSE Outcome(stored, "OK", None, FALSE)

\* SetXattr once getXattrMap has returned the user map
SetXattrStore(i, key, value, xflags) ==
    LET meta == Val(i.userMetadata)
        ok == key \in DOMAIN meta
    IN  IF xflags = XATTR_CREATE /\ ok THEN Outcome(i, "EEXIST", None, FALSE)
        ELSE IF xflags = XATTR_REPLACE /\ ~ok THEN Outcome(i, "ENODATA", None, FALSE)
        ELSE LET stored == [i EXCEPT
                               !.userMetadata = Some(MapPut(meta, key, StoredValue(value))),
                               !.userMetadataDirty = 2]
             IN  IF i.CacheState = ST_CACHED
                 THEN Outcome(SetCacheState(stored, ST_MODIFIED), "OK", None, TRUE)
                 ELSE Outcome(stored, "OK", None, FALSE)

\* the inode marked dirty also when the key is absent
RemoveMarksDirty(i, key) ==
    LET meta == Val(i.userMetadata)
        removed == [i EXCEPT !.userMetadata = Some(MapDel(meta, key)),
                             !.userMetadataDirty = 2]
    IN  IF key \in DOMAIN meta
        THEN IF i.CacheState = ST_CACHED
             THEN Outcome(SetCacheState(removed, ST_MODIFIED), "OK", None, TRUE)
             ELSE Outcome(removed, "OK", None, FALSE)
        ELSE Outcome(removed, "ENODATA", None, FALSE)

\* the inode marked MODIFIED and the flusher woken whatever state it was in
RemoveAlwaysMarksModified(i, key) ==
    LET meta == Val(i.userMetadata)
    IN  IF key \in DOMAIN meta
        THEN Outcome(SetCacheState([i EXCEPT !.userMetadata = Some(MapDel(meta, key)),
                                             !.userMetadataDirty = 2],
                                   ST_MODIFIED), "OK", None, TRUE)
        ELSE Outcome(i, "ENODATA", None, FALSE)

\* RemoveXattr once getXattrMap has returned the user map
RemoveXattrDelete(i, key) ==
    LET meta == Val(i.userMetadata)
    IN  IF key \in DOMAIN meta
        THEN LET removed == [i EXCEPT !.userMetadata = Some(MapDel(meta, key)),
                                      !.userMetadataDirty = 2]
             IN  IF i.CacheState = ST_CACHED
                 THEN Outcome(SetCacheState(removed, ST_MODIFIED), "OK", None, TRUE)
                 ELSE Outcome(removed, "OK", None, FALSE)
        ELSE Outcome(i, "ENODATA", None, FALSE)

\* GetXattr once getXattrMap has returned a map: the stored slice itself
GetXattrLookup(i, meta, key) ==
    IF key \in DOMAIN meta THEN Outcome(i, "OK", Some(meta[key].data), FALSE)
    ELSE Outcome(i, "ENODATA", None, FALSE)

\* a call from the end of fillXattr on, under inode.mu
XattrFinish(call, i) ==
    LET route == XattrRoute(call.name, call.op # "GetXattr")
        meta == RouteMap(i, route)
    IN  IF IsNil(meta) THEN Outcome(i, "ENOSYS", None, FALSE)
        ELSE CASE call.op = "SetXattr" ->
                    SetXattrStore(i, route.newName, call.value, call.xflags)
               [] call.op = "RemoveXattr" -> RemoveXattrDelete(i, route.newName)
               [] OTHER -> GetXattrLookup(i, Val(meta), route.newName)

XattrCalls(names, values, xflagSet) ==
    {[op |-> "SetXattr", name |-> n, value |-> v, xflags |-> f] :
        n \in names, v \in values, f \in xflagSet}
    \cup {[op |-> o, name |-> n, value |-> <<>>, xflags |-> 0] :
        o \in {"RemoveXattr", "GetXattr"}, n \in names}

\* the successful SetXattr that the step just taken was, or that the caller
\* has only reused its buffer since
PrevSet(l) ==
    IF l.op = "SetXattr" /\ l.err = "OK" THEN Some(l)
    ELSE IF l.op = "Mutate" THEN Some(l.set)
    ELSE None

XattrRecord(call, out, viaHead) ==
    [op |-> call.op, name |-> call.name, value |-> call.value,
     xflags |-> call.xflags, err |-> out.err, ret |-> out.ret,
     woke |-> out.wake, found |-> FoundByXattr, viaHead |-> viaHead,
     afterSet |-> ~IsNil(PrevSet(last)) /\ Val(PrevSet(last)).name = call.name]

Publish(call, out, viaHead, rec) ==
    /\ inode' = out.inode
    /\ flusherWoken' = (flusherWoken \/ out.wake)
    /\ last' = Record(rec, XattrRecord(call, out, viaHead))

\* a call that needs no HEAD runs to its end under inode.mu
XattrCall(call, rec) ==
    /\ Running /\ MuFree /\ InTable
    /\ LET route == XattrRoute(call.name, call.op # "GetXattr")
       IN  IF route.kind = "err"
           THEN Publish(call, Outcome(inode, route.err, None, FALSE), FALSE, rec)
           ELSE /\ route.kind = "user" => ~NeedsHead(inode)
                /\ Publish(call, XattrFinish(call, inode), FALSE, rec)
    /\ callerBuf' = IF call.op = "SetXattr" THEN call.value ELSE callerBuf
    /\ UNCHANGED <<refcnt, fsInodes, forgotCnt, lfruTracked, nWrites, flusher, heads,
                   deref, panicked, lastETag, flags, locks, attrs, tree>>

\* fillXattr drops inode.mu and sends the HEAD; at most limit calls wait
XattrHeadStartUpTo(call, limit) ==
    /\ Running /\ MuFree /\ InTable
    /\ XattrRoute(call.name, call.op # "GetXattr").kind = "user"
    /\ NeedsHead(inode)
    /\ Cardinality(heads) < limit
    /\ call \notin heads
    /\ heads' = heads \cup {call}
    /\ callerBuf' = IF call.op = "SetXattr" THEN call.value ELSE callerBuf
    /\ last' = NoLast
    /\ UNCHANGED <<inode, refcnt, fsInodes, forgotCnt, lfruTracked, flusherWoken,
                   nWrites, flusher, deref, panicked, lastETag, flags, locks, attrs, tree>>

XattrHeadStart(call) == XattrHeadStartUpTo(call, MaxHeads)

\* the HEAD returns; fillXattr takes inode.mu again and the call finishes
XattrHeadDone(call, resp, rec) ==
    /\ Running /\ MuFree
    /\ call \in heads
    /\ heads' = heads \ {call}
    /\ LET filled == AfterHead(inode, resp, flags)
           applied == resp.err = "OK" /\ IsNil(inode.userMetadata)
       IN  /\ IF filled.err # "OK"
              THEN Publish(call, Outcome(filled.inode, filled.err, None, FALSE),
                           TRUE, rec)
              ELSE Publish(call, XattrFinish(call, filled.inode), TRUE, rec)
           /\ lastETag' = IF applied /\ ~IsNil(resp.ETag) THEN Val(resp.ETag)
                          ELSE lastETag
    /\ UNCHANGED <<refcnt, fsInodes, forgotCnt, lfruTracked, nWrites, flusher, deref,
                   panicked, flags, locks, attrs, tree, callerBuf>>

\* the caller of SetXattr reuses its buffer: slices that share it change too
MutateCallerBuffer(b) ==
    /\ Running
    /\ Len(callerBuf) > 0 /\ b # callerBuf
    /\ callerBuf' = b
    /\ inode' =
         IF IsNil(inode.userMetadata) THEN inode
         ELSE [inode EXCEPT !.userMetadata =
                 Some([k \in DOMAIN Val(@) |->
                         IF Val(@)[k].shared THEN Alias(b) ELSE Val(@)[k]])]
    /\ last' = IF last.op = "SetXattr" /\ last.err = "OK"
               THEN [op |-> "Mutate", set |-> last]
               ELSE IF last.op = "Mutate" THEN last ELSE NoLast
    /\ UNCHANGED <<refcnt, fsInodes, forgotCnt, lfruTracked, flusherWoken, nWrites,
                   flusher, heads, deref, panicked, lastETag, flags, locks, attrs, tree>>

----------------------------------------------------------------------------
(* Inputs *)

ETagA == <<"A">>
ETagB == <<"B">>
ETags == {ETagA, ETagB}
OptETags == {None} \cup {Some(e) : e \in ETags}
Sizes == 0..MaxSize

\* blob metadata as the backend returns it: escaped values, keys in any case
RawMetaF == (<<"F">> :> <<"%", "6", "1">>)
RawMetaMtime == (MtimeAttr :> <<"2">>)
RawMetaBad == (<<"f">> :> <<"%", "z">>)
RawMetas == {RawMetaF, RawMetaMtime, RawMetaBad}

BlobItems(etags, sizes, times, classes, metas) ==
    {[ETag |-> e, Size |-> sz, LastModified |-> t, StorageClass |-> c,
      Metadata |-> m] :
        e \in etags, sz \in sizes, t \in times, c \in classes, m \in metas}

HeadResponses(errs, etags, metas) ==
    {[err |-> "OK", ETag |-> e, StorageClass |-> None, Metadata |-> m] :
        e \in etags, m \in metas}
    \cup {[err |-> x, ETag |-> None, StorageClass |-> None, Metadata |-> EmptyMap] :
        x \in errs}

NameUserF == UserPrefix \o <<"f">>
NameSymlink == UserPrefix \o SymlinkAttr
NameS3Etag == BackendName \o <<".">> \o KeyEtag
NameSecurity == <<"s", "e", "c", "u", "r", "i", "t", "y", ".",
                  "c", "a", "p", "a", "b", "i", "l", "i", "t", "y">>
ValueA == <<"a">>
ValueB == <<"b", "2">>

----------------------------------------------------------------------------------------------------------------------------------------
(* Reconciliation against local writes and flushes *)

ReconItems == BlobItems(OptETags, Sizes, {None}, {None}, {None, Some(RawMetaF)})
ReconSetF == [op |-> "SetXattr", name |-> NameUserF, value |-> ValueA, xflags |-> 0]

InitRecon == InitWith({ST_CACHED, ST_CREATED}, {FALSE}, {FALSE})

NextRecon ==
    \/ \E item \in ReconItems : SetFromBlobItemCall(item, TRUE)
    \/ \E off \in 0..(MaxSize - 1) : WriteFile(off)
    \/ FlushPartStart
    \/ \E st \in {BUF_FLUSHED_FULL, BUF_FLUSHED_CUT} : FlushPartDone(st)
    \/ Evict
    \/ FlushFinalStart
    \/ FlushFinalDone(ETagA)
    \/ FlushReap
    \/ XattrCall(ReconSetF, FALSE)

SpecRecon == InitRecon /\ [][NextRecon]_vars

----------------------------------------------------------------------------
(* Reconciliation of times and metadata *)

MetaItems == BlobItems({Some(ETagA)}, Sizes, {None, Some(1)}, {None},
                       {None} \cup {Some(m) : m \in RawMetas})

InitMeta == InitWith({ST_CACHED}, {FALSE}, BOOLEAN)

NextMeta ==
    \/ \E item \in MetaItems : SetFromBlobItemCall(item, TRUE)
    \/ \E off \in 0..(MaxSize - 1) : WriteFile(off)
    \/ XattrCall(ReconSetF, FALSE)

SpecMeta == InitMeta /\ [][NextMeta]_vars

----------------------------------------------------------------------------
(* Reference counting against the flusher *)

RefItems == BlobItems({Some(ETagA)}, Sizes, {None}, {None}, {None})

InitRef == InitWith({ST_CACHED, ST_CREATED}, {FALSE}, {FALSE})

NextRef ==
    \/ Ref
    \/ \E n \in 1..MaxRef : DeRefAdd(n)
    \/ DeRefRest(TRUE)
    \/ \E item \in RefItems : SetFromBlobItemCall(item, FALSE)
    \/ \E off \in 0..(MaxSize - 1) : WriteFile(off)
    \/ Unlink
    \/ FlushPartStart
    \/ \E st \in {BUF_FLUSHED_FULL, BUF_FLUSHED_CUT} : FlushPartDone(st)
    \/ Evict
    \/ FlushFinalStart
    \/ FlushFinalDone(ETagB)
    \/ FlushReap

SpecRef == InitRef /\ [][NextRef]_vars

\* the flusher is a thread of its own, and a DeRef caller that holds inode.mu
\* runs on: a step of theirs that stays possible is taken
SpecRefLive == SpecRef /\ WF_vars(FlushReap) /\ WF_vars(DeRefRest(TRUE))

----------------------------------------------------------------------------
(* The xattr calls against HEAD responses, reconciliation and flushes *)

XattrNames == {NameUserF, NameS3Etag, NameSecurity, NameSymlink}
AllXattrCalls ==
    XattrCalls({NameUserF}, {ValueA, ValueB}, {0, XATTR_CREATE, XATTR_REPLACE})
    \cup XattrCalls(XattrNames, {ValueA}, {0})
XattrHeads == HeadResponses({"ENOENT", "EIO"}, {Some(ETagB)}, {EmptyMap, RawMetaF})
XattrItems == BlobItems({Some(ETagA), Some(ETagB)}, {0}, {None}, {None},
                        {None, Some(RawMetaF)})

InitXattr == InitWith({ST_CACHED, ST_CREATED}, BOOLEAN, {FALSE})

NextXattr ==
    \/ \E call \in AllXattrCalls : XattrCall(call, TRUE)
    \/ \E call \in AllXattrCalls : XattrHeadStart(call)
    \/ \E call \in AllXattrCalls, resp \in XattrHeads : XattrHeadDone(call, resp, TRUE)
    \/ \E b \in {ValueA, ValueB} : MutateCallerBuffer(b)
    \/ \E item \in XattrItems : SetFromBlobItemCall(item, FALSE)
    \/ Unlink

SpecXattr == InitXattr /\ [][NextXattr]_vars

----------------------------------------------------------------------------
(* Several xattr calls waiting for their HEADs at once *)

HeadCalls == XattrCalls({NameUserF}, {ValueB}, {0})
HeadAnswers == HeadResponses({"ENOENT"}, {Some(ETagB)}, {RawMetaF, RawMetaMtime})
HeadItems == BlobItems({Some(ETagA)}, {0}, {None}, {None}, {None, Some(RawMetaF)})

InitHead == InitWith({ST_CACHED}, BOOLEAN, {FALSE})

NextHead ==
    \/ \E call \in HeadCalls : XattrCall(call, TRUE)
    \/ \E call \in HeadCalls : XattrHeadStartUpTo(call, MaxHeads + 1)
    \/ \E call \in HeadCalls, resp \in HeadAnswers : XattrHeadDone(call, resp, TRUE)
    \/ \E item \in HeadItems : SetFromBlobItemCall(item, FALSE)

SpecHead == InitHead /\ [][NextHead]_vars

----------------------------------------------------------------------------
(* The locks: inode.mu of each inode and fs.mu, as the calls take them *)

Lock(l) == [a |-> "lock", l |-> l]
Unlock(l) == [a |-> "unlock", l |-> l]

\* SetFromBlobItem, OpenFile and the xattr calls: inode.mu for the whole call
HoldMuScript == <<Lock("mu"), Unlock("mu")>>

\* an xattr call whose fillXattr issues the HEAD with inode.mu dropped
HeadScript == <<Lock("mu"), Unlock("mu"), Lock("mu"), Unlock("mu")>>

\* DeRef that takes fs.mu first and inode.mu under it
DeRefFsFirst == <<Lock("fs"), Lock("mu"), Unlock("mu"), Unlock("fs")>>

\* DeRef that forgets the inode: the caller holds inode.mu around the call,
\* the call takes fs.mu for the table and the counter
DeRefScript == <<Lock("mu"), Lock("fs"), Unlock("fs"), Unlock("mu")>>

LockOps == {"SetFromBlobItem", "OpenFile", "SetXattr", "GetXattrViaHead", "DeRef"}

LockScript(op) ==
    CASE op = "DeRef" -> DeRefScript
      [] op = "GetXattrViaHead" -> HeadScript
      [] OTHER -> HoldMuScript

\* the instruction thread t is at
NextInstr(t) == LockScript(locks.pc[t].op)[locks.pc[t].at]

\* the holder of the lock an instruction of thread t names
Holder(t, l) == IF l = "fs" THEN locks.fsmu ELSE locks.mu[locks.pc[t].inode]

InCall(t) == locks.pc[t] # IdleThread

\* thread t can take its next step: a Lock needs the lock to be free
CanStep(t) ==
    /\ InCall(t)
    /\ NextInstr(t).a = "lock" => Holder(t, NextInstr(t).l) = 0

\* locks with the lock l of thread t's inode given to owner
WithHolder(t, l, owner) ==
    IF l = "fs" THEN [locks EXCEPT !.fsmu = owner]
    ELSE [locks EXCEPT !.mu[locks.pc[t].inode] = owner]

modelVars == <<inode, refcnt, fsInodes, forgotCnt, lfruTracked, flusherWoken,
               nWrites, flusher, heads, deref, panicked, lastETag, flags, callerBuf,
               attrs, tree, last>>

\* a thread enters a call on an inode
ThreadBegin(t, op, i) ==
    /\ ~InCall(t)
    /\ locks' = [locks EXCEPT !.pc[t] = [op |-> op, inode |-> i, at |-> 1]]
    /\ UNCHANGED modelVars

\* a thread executes its next Lock or Unlock; after the last one it is out
ThreadStep(t) ==
    /\ CanStep(t)
    /\ LET ins == NextInstr(t)
           held == WithHolder(t, ins.l, IF ins.a = "lock" THEN t ELSE 0)
           done == locks.pc[t].at = Len(LockScript(locks.pc[t].op))
       IN  locks' = [held EXCEPT !.pc[t] =
                        IF done THEN IdleThread ELSE [@ EXCEPT !.at = @ + 1]]
    /\ UNCHANGED modelVars

InitLocks == InitWith({ST_CACHED}, {FALSE}, {FALSE})

NextLocks ==
    \/ \E t \in Threads, op \in LockOps, i \in LockInodes : ThreadBegin(t, op, i)
    \/ \E t \in Threads : ThreadStep(t)

SpecLocks == InitLocks /\ [][NextLocks]_vars

----------------------------------------------------------------------------
(* setFileMode *)

RECURSIVE BitsValue(_)
\* the number whose set bits are the given positions
BitsValue(bits) ==
    IF bits = {} THEN 0
    ELSE LET b == CHOOSE b \in bits : TRUE IN 2^b + BitsValue(bits \ {b})

\* fuse.ConvertGolangMode: the permission bits with the S_IF* code of the type
ConvertGolangMode(mode) ==
    BitsValue(mode \cap ModePerm) +
    (CASE mode \cap ModeDir # {} -> 16384
       [] mode \cap ModeDevice # {} ->
              IF mode \cap ModeCharDevice # {} THEN 8192 ELSE 24576
       [] mode \cap ModeNamedPipe # {} -> 4096
       [] mode \cap ModeSymlink # {} -> 40960
       [] mode \cap ModeSocket # {} -> 49152
       [] OTHER -> 32768)

RECURSIVE SprintfD(_)
\* fmt.Sprintf("%d", n) for n >= 0
SprintfD(n) ==
    IF n < 10 THEN <<DecDigits[n + 1]>>
    ELSE Append(SprintfD(n \div 10), DecDigits[(n % 10) + 1])

\* setUserMeta: the map is made if nil, a nil value deletes the key, and the
\* metadata is marked locally modified
setUserMeta(i, key, value) ==
    LET meta == IF IsNil(i.userMetadata) THEN EmptyMap ELSE Val(i.userMetadata)
    IN  [i EXCEPT !.userMetadata =
                      Some(IF IsNil(value) THEN MapDel(meta, key)
                           ELSE MapPut(meta, key, Val(value))),
                  !.userMetadataDirty = 2]

\* the type check made when the option is off
TypeCheckedWhenOff(mode, newMode, specials) ==
    IF ~specials /\ (newMode \cap ModeDir) # (mode \cap ModeDir)
    THEN [err |-> IF newMode \cap ModeDir # {} THEN "ENOTDIR" ELSE "EISDIR",
          Mode |-> mode]
    ELSE [err |-> "OK", Mode |-> (mode \cap ModePerm) \cup (newMode \cap ModeType)]

\* setFileMode, the type bits: with EnableSpecials a directory bit that differs
\* is an error, otherwise the type bits of newMode replace the inode's
setFileModeType(mode, newMode, specials) ==
    IF specials
    THEN IF (newMode \cap ModeDir) # (mode \cap ModeDir)
         THEN [err |-> IF newMode \cap ModeDir # {} THEN "ENOTDIR" ELSE "EISDIR",
               Mode |-> mode]
         ELSE [err |-> "OK",
               Mode |-> (mode \cap ModePerm) \cup (newMode \cap ModeType)]
    ELSE [err |-> "OK", Mode |-> mode]

\* setFileMode, the permission bits
setFileModePerms(mode, newMode, perms) ==
    IF perms THEN (mode \cap ModeType) \cup (newMode \cap ModePerm) ELSE mode

defaultMode(i) == IF i.isDir THEN DirMode \cup ModeDir ELSE FileMode

\* setFileMode, the attributes: rdev of a device, the mode unless it is the default
setFileModeMeta(i, mode, rdev) ==
    LET withRdev == IF mode \cap ModeDevice # {}
                    THEN setUserMeta(i, RdevAttr, Some(Bytes(SprintfD(rdev))))
                    ELSE i
    IN  IF mode # defaultMode(i)
        THEN setUserMeta(withRdev, FileModeAttr,
                         Some(Bytes(SprintfD(ConvertGolangMode(mode)))))
        ELSE setUserMeta(withRdev, FileModeAttr, None)

\* setFileMode: [inode, attrs, changed, err]
setFileMode(i, a, newMode) ==
    LET typed == setFileModeType(a.Mode, newMode, a.EnableSpecials)
        mode == setFileModePerms(typed.Mode, newMode, a.EnablePerms)
    IN  IF typed.err # "OK"
        THEN [inode |-> i, attrs |-> a, changed |-> FALSE, err |-> typed.err]
        ELSE [inode |-> setFileModeMeta(i, mode, a.Rdev),
              attrs |-> [a EXCEPT !.Mode = mode],
              changed |-> a.Mode # mode, err |-> "OK"]

SetFileModeCall(newMode) ==
    /\ Running /\ MuFree
    /\ LET r == setFileMode(inode, attrs, newMode)
       IN  /\ inode' = r.inode
           /\ attrs' = r.attrs
           /\ last' = [op |-> "setFileMode", newMode |-> newMode,
                       changed |-> r.changed, err |-> r.err]
    /\ UNCHANGED <<refcnt, fsInodes, forgotCnt, lfruTracked, flusherWoken, nWrites,
                   flusher, heads, deref, panicked, lastETag, flags, callerBuf,
                   locks, tree>>

\* the file types and permissions of the modes tried
FileTypes ==
    {{}, ModeDir, ModeSymlink, ModeDevice, ModeDevice \cup ModeCharDevice, ModeNamedPipe}
Modes == {t \cup perm : t \in FileTypes, perm \in {Perm644, Perm755}}

InitMode ==
    /\ InitInode({ST_CACHED}, BOOLEAN, {FALSE})
    /\ attrs \in [Mode : {m \in Modes : (m \cap ModeDir # {}) = inode.isDir},
                  Rdev : {0, 259}, EnableSpecials : BOOLEAN, EnablePerms : BOOLEAN]
    /\ tree = DefaultTree(inode.isDir)

NextMode == \E newMode \in Modes : SetFileModeCall(newMode)

SpecMode == InitMode /\ [][NextMode]_vars

----------------------------------------------------------------------------
(* cloud: the backend and the key of an inode *)

\* the inode of a tree is its last node; the Parent of node p is node p - 1,
\* and 0 stands for the nil Parent of the root
IsDirNode(node) == ~IsNil(node.dir)
HasCloud(node) == IsDirNode(node) /\ ~IsNil(Val(node.dir).cloud)

RECURSIVE TrimRightSlash(_)
\* strings.TrimRight(s, "/")
TrimRightSlash(s) ==
    IF Len(s) > 0 /\ s[Len(s)] = "/" THEN TrimRightSlash(SubSeq(s, 1, Len(s) - 1))
    ELSE s

\* where the walk starts: a file starts at its Parent with its own name as
\* the path, a directory starts at itself with an empty path
cloudStart(t) ==
    IF ~IsDirNode(t[Len(t)]) THEN [path |-> t[Len(t)].Name, p |-> Len(t) - 1]
    ELSE [path |-> <<>>, p |-> Len(t)]

\* the name of the inode itself left out of the path
PrependSkipsInode(t, p, path) ==
    IF p = Len(t) THEN path
    ELSE IF path = <<>> THEN t[p].Name
    ELSE IF p - 1 # 0 THEN t[p].Name \o <<"/">> \o path
    ELSE path

\* one step of the walk past a directory without a binding
cloudPrepend(t, p, path) ==
    IF path = <<>> THEN t[p].Name
    ELSE IF p - 1 # 0 THEN t[p].Name \o <<"/">> \o path
    ELSE path

\* the binding found: the error backend and a wrapper whose Init fails give
\* no prefix
cloudBound(d) ==
    LET c == Val(d.cloud)
        isErr == \/ c.kind = "InitError"
                 \/ c.kind = "InitWrapper" /\ ~c.initOK
    IN  [cloud |-> d.cloud, prefix |-> IF ~isErr THEN d.mountPrefix ELSE <<>>]

RECURSIVE cloudWalk(_, _, _)
\* the loop over p, p.Parent, ...
cloudWalk(t, p, path) ==
    IF p = 0 THEN [cloud |-> None, prefix |-> <<>>, path |-> path]
    ELSE IF HasCloud(t[p])
         THEN [cloud |-> cloudBound(Val(t[p].dir)).cloud,
               prefix |-> cloudBound(Val(t[p].dir)).prefix, path |-> path]
         ELSE cloudWalk(t, p - 1, cloudPrepend(t, p, path))

\* cloud(): [cloud, path]
cloud(t) ==
    LET w == cloudWalk(t, cloudStart(t).p, cloudStart(t).path)
    IN  [cloud |-> w.cloud,
         path |-> IF w.path = <<>> THEN TrimRightSlash(w.prefix)
                  ELSE w.prefix \o w.path]

CloudCall ==
    /\ Running /\ MuFree
    /\ last' = [op |-> "cloud", cloud |-> cloud(tree).cloud, path |-> cloud(tree).path]
    /\ UNCHANGED <<inode, refcnt, fsInodes, forgotCnt, lfruTracked, flusherWoken,
                   nWrites, flusher, heads, deref, panicked, lastETag, flags,
                   callerBuf, locks, attrs, tree>>

\* the names, bindings and trees tried
NodeNames == {<<"a">>, <<"b">>}
MountPrefixes == {<<>>, <<"p", "/">>}
Backends ==
    {PlainBackend, Backend("InitError", FALSE), Backend("InitWrapper", TRUE),
     Backend("InitWrapper", FALSE)}
DirStates ==
    {DirState(None, <<>>)} \cup
    {DirState(Some(b), pre) : b \in Backends, pre \in MountPrefixes}
RootNodes == {[Name |-> <<>>, dir |-> d] : d \in DirStates \ {DirState(None, <<>>)}}
DirNodes == {[Name |-> nm, dir |-> d] : nm \in NodeNames, d \in DirStates}
FileNodes == {[Name |-> nm, dir |-> NoDir] : nm \in NodeNames}

\* a root, directories below it, and the inode: a directory or a file
Trees ==
    UNION {{t \in [1..n -> RootNodes \cup DirNodes \cup FileNodes] :
               /\ t[1] \in RootNodes
               /\ \A j \in 2..n : t[j] \in DirNodes \cup FileNodes
               /\ \A j \in 1..(n - 1) : IsDirNode(t[j])} : n \in 1..MaxDepth}

InitTree ==
    /\ InitInode({ST_CACHED}, BOOLEAN, {FALSE})
    /\ attrs = DefaultAttrs(inode.isDir)
    /\ tree \in {t \in Trees : IsDirNode(t[Len(t)]) = inode.isDir}

NextTree == CloudCall

SpecTree == InitTree /\ [][NextTree]_vars

----------------------------------------------------------------------------
(* Writes, the flusher, reconciliation, xattr calls and DeRef together *)

AllItems == BlobItems({Some(ETagA)}, Sizes, {None}, {None},
                      {None, Some(RawMetaF)})
AllCalls == XattrCalls({NameUserF}, {ValueA}, {0})

Init == InitWith({ST_CACHED, ST_CREATED}, {FALSE}, {FALSE})

Next ==
    \/ \E item \in AllItems : SetFromBlobItemCall(item, FALSE)
    \/ Ref
    \/ DeRefAdd(1)
    \/ DeRefRest(FALSE)
    \/ \E off \in 0..(MaxSize - 1) : WriteFile(off)
    \/ Unlink
    \/ FlushPartStart
    \/ \E st \in {BUF_FLUSHED_FULL, BUF_FLUSHED_CUT} : FlushPartDone(st)
    \/ Evict
    \/ FlushFinalStart
    \/ FlushFinalDone(ETagB)
    \/ FlushReap
    \/ \E call \in AllCalls : XattrCall(call, FALSE)

Spec == Init /\ [][Next]_vars

----------------------------------------------------------------------------
(* SetFromBlobItem: what a call leaves behind *)

Reconciled == last'.op = "SetFromBlobItem"

\* the conflict rule as the specification words it
RuleConflict(known, item) ==
    \/ (~IsNil(item.ETag) /\ Val(item.ETag) # known.knownETag)
    \/ item.Size # known.knownSize

\* the buffer list that covers [0, size) with zeroes
ZeroCover(size) ==
    IF size = 0 THEN <<>> ELSE <<Chunk(0, size, BUF_CLEAN, TRUE, 0)>>

C4_ConflictExactly ==
    [][Reconciled =>
          IF RuleConflict(inode, last'.item)
          THEN /\ inode'.CacheState = ST_CACHED
               /\ inode'.buffers = ZeroCover(last'.item.Size)
          ELSE /\ inode'.buffers = inode.buffers
               /\ inode'.CacheState = inode.CacheState
               /\ inode'.Size = inode.Size
               /\ inode'.userMetadata = inode.userMetadata]_vars

\* an observation with the known ETag and size met dirty buffers and left them
C4_Witness ==
    /\ last.op = "SetFromBlobItem"
    /\ ~IsNil(last.item.ETag) /\ Val(last.item.ETag) = last.found.knownETag
    /\ last.item.Size = last.found.knownSize
    /\ ~IsNil(last.item.Metadata)
    /\ last.found.dirtyBuffers
    /\ inode.CacheState = ST_MODIFIED
    /\ HasState(inode.buffers, {BUF_DIRTY})

\* the time an observation carries, or the root's ctime
ObservedTime(item) ==
    IF ~IsNil(item.LastModified) THEN Val(item.LastModified) ELSE RootCtime

\* the user metadata an observed map parses to
ParsedMetadata(raw) ==
    LET um == unescapeMetadata(raw) IN Some([k \in DOMAIN um |-> Bytes(um[k])])

\* the mtime attribute of an observed map counts
CarriesMtime(item) ==
    /\ flags.EnableMtime /\ ~IsNil(item.Metadata)
    /\ MtimeAttr \in DOMAIN unescapeMetadata(Val(item.Metadata))
    /\ ParseUint(unescapeMetadata(Val(item.Metadata))[MtimeAttr]).ok

\* C9 as stated: after every call Size is the observed size, Mtime and Ctime
\* are the observed time, and an observed metadata map is parsed into
\* userMetadata with userMetadataDirty = 0.
C9_AsStated ==
    [][Reconciled =>
          /\ inode'.Size = last'.item.Size
          /\ inode'.Mtime = ObservedTime(last'.item)
          /\ inode'.Ctime = ObservedTime(last'.item)
          /\ (~IsNil(last'.item.Metadata) =>
                /\ inode'.userMetadata = ParsedMetadata(Val(last'.item.Metadata))
                /\ inode'.userMetadataDirty = 0)]_vars

\* C9, amended: after a call that found a conflict, Size is the observed
\* size, Ctime the observed time (the root's ctime when there is none), Mtime
\* the same unless mtime preservation is on and the observed metadata carries
\* a parseable mtime attribute, which then is Mtime; and an observed metadata
\* map is parsed into userMetadata with userMetadataDirty = 0. After a call
\* that found no conflict all five are as they were.
C9_StoresOnConflictOnly ==
    [][Reconciled =>
          IF RuleConflict(inode, last'.item)
          THEN /\ inode'.Size = last'.item.Size
               /\ inode'.Ctime = ObservedTime(last'.item)
               /\ inode'.Mtime =
                    IF CarriesMtime(last'.item)
                    THEN ParseUint(unescapeMetadata(
                                     Val(last'.item.Metadata))[MtimeAttr]).n
                    ELSE ObservedTime(last'.item)
               /\ (~IsNil(last'.item.Metadata) =>
                     /\ inode'.userMetadata =
                          ParsedMetadata(Val(last'.item.Metadata))
                     /\ inode'.userMetadataDirty = 0)
               /\ (IsNil(last'.item.Metadata) =>
                     /\ inode'.userMetadata = inode.userMetadata
                     /\ inode'.userMetadataDirty = inode.userMetadataDirty)
          ELSE /\ inode'.Size = inode.Size
               /\ inode'.Mtime = inode.Mtime
               /\ inode'.Ctime = inode.Ctime
               /\ inode'.userMetadata = inode.userMetadata
               /\ inode'.userMetadataDirty = inode.userMetadataDirty]_vars

\* a conflicting observation with a metadata map and a time met a MODIFIED
\* inode and replaced its metadata and times
C9_Witness ==
    /\ last.op = "SetFromBlobItem"
    /\ RuleConflict(last.found, last.item)
    /\ last.found.CacheState = ST_MODIFIED
    /\ ~IsNil(last.item.Metadata) /\ ~IsNil(last.item.LastModified)
    /\ inode.userMetadata = ParsedMetadata(Val(last.item.Metadata))
    /\ inode.userMetadataDirty = 0
    /\ inode.Ctime = Val(last.item.LastModified)

----------------------------------------------------------------------------
(* Ref and DeRef: the inode table and the count *)

\* a DeRef call returned (it did not panic)
DeRefReturned == last'.op = "DeRef" /\ last'.res >= 0

\* C2: DeRef(n) takes the inode out of the inode table if and only if the
\* count reaches zero and CacheState is CACHED at that moment; it then also
\* releases the buffers, adds exactly one to forgotCnt and has the
\* memory-pressure tracker forget the inode. At zero with CacheState CREATED,
\* MODIFIED or DELETED, and above zero, the inode stays in the table with its
\* buffers and forgotCnt as they were.
C2_ForgetIffZeroAndCached ==
    [][DeRefReturned =>
          IF last'.res = 0 /\ inode.CacheState = ST_CACHED
          THEN /\ ~InTable'
               /\ inode'.buffers = <<>>
               /\ forgotCnt' = forgotCnt + 1
               /\ InodeId \notin lfruTracked'
          ELSE /\ InTable' = InTable
               /\ inode' = inode
               /\ forgotCnt' = forgotCnt
               /\ lfruTracked' = lfruTracked]_vars

\* the last reference to a CACHED inode with buffers was dropped
C2_Witness ==
    /\ last.op = "DeRef" /\ last.res = 0
    /\ last.found.CacheState = ST_CACHED /\ last.found.buffered
    /\ last.found.inTable /\ ~InTable
    /\ inode.buffers = <<>>
    /\ forgotCnt = 1
    /\ InodeId \notin lfruTracked

\* C6 as stated: while the process runs, refcnt >= 0 in every state another
\* thread can observe, under any interleaving of Ref and DeRef.
C6_RefcntNeverNegative == Running => refcnt >= 0

\* C10: an inode leaves the inode table only from CacheState CACHED, so one
\* whose count dropped to zero while it was not CACHED stays until the flusher
\* has finished; and once the final flush has made it CACHED with the count
\* still zero, it is eventually out of the table unless it is looked up or
\* modified again first (or the process has aborted on a negative count).
C10_ReapedAfterFinalFlush ==
    /\ [][(InTable /\ ~InTable') => inode.CacheState = ST_CACHED]_vars
    /\ ((flusher.pc = "reap" /\ refcnt = 0 /\ inode.CacheState = ST_CACHED /\ InTable)
          ~> (~InTable \/ refcnt # 0 \/ inode.CacheState # ST_CACHED \/ panicked))

\* the flusher, its final flush accepted, dropped an inode nobody references
C10_Witness ==
    /\ last.op = "FlushReap" /\ last.reaped
    /\ refcnt = 0
    /\ ~InTable
    /\ forgotCnt = 1

----------------------------------------------------------------------------
(* The xattr calls and the ETag the inode knows *)

\* C3: a successful SetXattr that found the inode CACHED leaves it MODIFIED,
\* the value stored under the key in userMetadata, userMetadataDirty = 2, and
\* the flusher woken before the call returns.
C3_SetXattrMarksModified ==
    [][(last'.op = "SetXattr" /\ last'.err = "OK" /\ inode.CacheState = ST_CACHED) =>
          /\ inode'.CacheState = ST_MODIFIED
          /\ ~IsNil(inode'.userMetadata)
          /\ Drop(last'.name, 5) \in DOMAIN Val(inode'.userMetadata)
          /\ Val(inode'.userMetadata)[Drop(last'.name, 5)].data = last'.value
          /\ inode'.userMetadataDirty = 2
          /\ flusherWoken']_vars

\* a SetXattr succeeded on a CACHED inode whose flusher had not been woken
C3_Witness ==
    /\ last.op = "SetXattr" /\ last.err = "OK"
    /\ last.found.CacheState = ST_CACHED
    /\ ~last.found.woken
    /\ inode.CacheState = ST_MODIFIED
    /\ inode.userMetadataDirty = 2
    /\ flusherWoken

\* C5: a GetXattr(k) called after a successful SetXattr(k, v) returned, with
\* no other operation on the inode in between, returns exactly v, also when
\* the caller has changed its buffer v since. (A GetXattr that was waiting
\* for its HEAD while the SetXattr ran was not called after it.)
C5_GetReturnsWhatWasSet ==
    [][(last'.op = "GetXattr" /\ last'.afterSet /\ ~last'.viaHead) =>
          /\ last'.err = "OK"
          /\ last'.ret = Some(Val(PrevSet(last)).value)]_vars

\* a value was set, the caller's buffer changed, and GetXattr returned the
\* value as it was set
C5_Witness ==
    /\ last.op = "GetXattr" /\ last.afterSet /\ ~last.viaHead
    /\ last.err = "OK"
    /\ last.ret = Some(ValueA)
    /\ callerBuf = ValueB

\* C8 as stated: in every state knownETag is the ETag of the most recent
\* accepted remote response (HEAD, PUT, complete-multipart or listing
\* observation), and s3Metadata["etag"], when present, equals knownETag.
C8_KnownETagIsLastAccepted ==
    /\ inode.knownETag = lastETag
    /\ (KeyEtag \in DOMAIN inode.s3Metadata =>
          inode.s3Metadata[KeyEtag].data = inode.knownETag)

----------------------------------------------------------------------------
(* Cache state and buffers *)

NeedFlushing == {BUF_DIRTY, BUF_FLUSHED_FULL, BUF_FLUSHED_CUT, BUF_FL_CLEARED}

\* C7: in every state, an inode whose CacheState is CACHED has no buffer in
\* state DIRTY, FLUSHED_FULL, FLUSHED_CUT or FL_CLEARED, whatever writes,
\* flusher steps, xattr calls, SetFromBlobItem calls and DeRefs came before.
C7_CachedHasNothingToFlush ==
    inode.CacheState = ST_CACHED => ~HasState(inode.buffers, NeedFlushing)

\* after a write the inode is CACHED again, over clean buffers, the ETag it
\* knows being the one the flush was answered with
C7_Witness ==
    /\ inode.CacheState = ST_CACHED
    /\ nWrites > 0
    /\ Len(inode.buffers) > 0
    /\ \A j \in 1..Len(inode.buffers) : inode.buffers[j].state = BUF_CLEAN
    /\ inode.knownETag = ETagB
    /\ InTable

----------------------------------------------------------------------------
(* The xattr calls: errors and what they leave alone *)

\* the userMetadata key a name under user. addresses
UserKey(name) == Drop(name, 5)

\* the key is in the user metadata of inode i
HasUserKey(i, key) == ~IsNil(i.userMetadata) /\ key \in DOMAIN Val(i.userMetadata)

RemovedUser ==
    /\ last'.op = "RemoveXattr"
    /\ XattrRoute(last'.name, TRUE).kind = "user"

\* C12 as stated: RemoveXattr on a key under user. that is absent from the
\* inode's user metadata returns ENODATA on every inode (implicit directories
\* and inodes whose metadata is not fetched yet included) and leaves
\* userMetadataDirty and CacheState unchanged.
C12_AsStated ==
    [][(RemovedUser /\ ~HasUserKey(inode, UserKey(last'.name))) =>
          /\ last'.err = "ENODATA"
          /\ inode'.userMetadataDirty = inode.userMetadataDirty
          /\ inode'.CacheState = inode.CacheState]_vars

\* C12, amended: RemoveXattr on a key under user. returns ENODATA when the
\* user metadata is loaded, or gets loaded by the HEAD of the call, and does
\* not hold the key; on an inode that has no user metadata (an implicit
\* directory, or an inode whose HEAD finds no object) it returns ENOSYS; when
\* the HEAD fails otherwise it returns that error. In all these cases
\* userMetadataDirty and CacheState are unchanged and the flusher is not woken.
C12_AbsentKeyOrNoMetadata ==
    [][RemovedUser =>
          /\ ~last'.viaHead =>
                IF IsNil(inode.userMetadata)
                THEN last'.err = "ENOSYS" /\ inode' = inode
                ELSE IF ~HasUserKey(inode, UserKey(last'.name))
                THEN last'.err = "ENODATA" /\ inode' = inode
                ELSE last'.err = "OK"
          /\ last'.err \in {"OK", "ENODATA", "ENOSYS", "EIO"}
          /\ last'.err = "ENODATA" =>
                /\ ~IsNil(inode'.userMetadata)
                /\ ~HasUserKey(inode', UserKey(last'.name))
          /\ last'.err = "ENOSYS" => IsNil(inode'.userMetadata)
          /\ last'.err = "EIO" => last'.viaHead /\ inode' = inode
          /\ last'.err # "OK" =>
                /\ inode'.userMetadataDirty = inode.userMetadataDirty
                /\ inode'.CacheState = inode.CacheState
                /\ flusherWoken' = flusherWoken]_vars

\* RemoveXattr on an implicit directory, which has no user metadata, returned
\* ENOSYS
C12_Witness ==
    /\ last.op = "RemoveXattr" /\ ~last.viaHead
    /\ last.name = NameUserF
    /\ last.err = "ENOSYS"
    /\ inode.ImplicitDir /\ IsNil(inode.userMetadata)
    /\ inode.userMetadataDirty = 0

\* the name is under <backendName>.
UnderBackend(name) == HasPrefix(name, BackendName \o <<".">>)

\* the error the namespace rules answer a call with, "" when they let it pass
NamespaceError(op, name) ==
    IF ~UnderBackend(name) /\ ~HasPrefix(name, UserPrefix)
    THEN IF op = "GetXattr" THEN "ENOSYS" ELSE "EPERM"
    ELSE IF UnderBackend(name) /\ op # "GetXattr" THEN "EPERM"
    ELSE ""

\* C13: for a name under neither user. nor <backendName>., GetXattr returns
\* ENOSYS and SetXattr and RemoveXattr return EPERM, on any inode; for a name
\* under <backendName>., SetXattr and RemoveXattr return EPERM. A rejected
\* call issues no HEAD and leaves userMetadata, s3Metadata, userMetadataDirty
\* and CacheState (the whole inode) and the flusher as they were.
C13_NamespaceRejection ==
    [][/\ (last'.op \in {"GetXattr", "SetXattr", "RemoveXattr"}
             /\ NamespaceError(last'.op, last'.name) # "") =>
                /\ last'.err = NamespaceError(last'.op, last'.name)
                /\ ~last'.viaHead
                /\ heads' = heads
                /\ inode' = inode
                /\ flusherWoken' = flusherWoken
       /\ \A c \in heads' : NamespaceError(c.op, c.name) = ""]_vars

\* SetXattr on security.capability was refused on an inode whose metadata is
\* not loaded, without a HEAD
C13_Witness ==
    /\ last.op = "SetXattr" /\ last.name = NameSecurity
    /\ last.err = "EPERM"
    /\ IsNil(inode.userMetadata) /\ ~inode.ImplicitDir
    /\ heads = {}
    /\ inode.CacheState = ST_CACHED

----------------------------------------------------------------------------
(* The HEAD of fillXattr against what happened while it was in flight *)

\* the keys of the user metadata of inode i
UserKeys(i) == IF IsNil(i.userMetadata) THEN {} ELSE DOMAIN Val(i.userMetadata)

\* C14: a HEAD response that arrives after userMetadata has been populated by
\* another operation (a SetXattr that completed meanwhile, a SetFromBlobItem)
\* is not applied: the call that waited changes nothing but the key it is
\* about (GetXattr changes nothing), every other user xattr and s3Metadata are
\* as they were, so a stored xattr is never overwritten or lost by the late
\* response.
C14_LateHeadNotApplied ==
    [][(last'.op \in {"GetXattr", "SetXattr", "RemoveXattr"}
          /\ last'.viaHead /\ ~IsNil(inode.userMetadata)) =>
          /\ inode'.s3Metadata = inode.s3Metadata
          /\ ~IsNil(inode'.userMetadata)
          /\ \A k \in UserKeys(inode) \cup UserKeys(inode') :
                \/ last'.op # "GetXattr" /\ k = UserKey(last'.name)
                \/ /\ k \in UserKeys(inode) /\ k \in UserKeys(inode')
                   /\ Val(inode'.userMetadata)[k] = Val(inode.userMetadata)[k]
          /\ last'.op = "GetXattr" =>
                /\ inode'.userMetadata = inode.userMetadata
                /\ HasUserKey(inode, UserKey(last'.name)) =>
                      last'.ret = Some(Val(inode.userMetadata)[UserKey(last'.name)].data)]_vars

\* a GetXattr that had to wait for its HEAD returned the value a SetXattr
\* stored in the meantime
C14_Witness ==
    /\ last.op = "GetXattr" /\ last.viaHead
    /\ last.err = "OK" /\ last.ret = Some(ValueB)
    /\ HasUserKey(inode, UserKey(NameUserF))
    /\ Val(inode.userMetadata)[UserKey(NameUserF)].data = ValueB
    /\ UserKeys(inode) = {UserKey(NameUserF)}

----------------------------------------------------------------------------
(* Lock order *)

\* thread t holds fs.mu
HoldsFs(t) == locks.fsmu = t

\* thread t is about to take, or is waiting for, an inode.mu
WantsMu(t) == InCall(t) /\ NextInstr(t) = Lock("mu")

\* C15: a thread that holds fs.mu neither waits for nor goes on to take an
\* inode.mu (inode.mu is taken before fs.mu, never the reverse), and whenever
\* threads are inside DeRef, SetFromBlobItem, xattr calls or OpenFile on any
\* inodes, one of them can take its next step: they do not deadlock on
\* inode.mu and fs.mu.
C15_LockOrder ==
    /\ \A t \in Threads : HoldsFs(t) => ~WantsMu(t)
    /\ \A t \in Threads : HoldsFs(t) => locks.mu[locks.pc[t].inode] = t
    /\ (\E t \in Threads : InCall(t)) => (\E t \in Threads : CanStep(t))

\* one thread is inside DeRef holding fs.mu, the other is inside DeRef on
\* another inode, holds that inode's mu and waits for fs.mu
C15_Witness ==
    /\ HoldsFs(1) /\ locks.pc[1].op = "DeRef"
    /\ locks.pc[2].op = "DeRef" /\ locks.pc[2].inode # locks.pc[1].inode
    /\ locks.mu[locks.pc[2].inode] = 2
    /\ NextInstr(2) = Lock("fs")
    /\ ~CanStep(2) /\ CanStep(1)

----------------------------------------------------------------------------
(* setFileMode and the type of the inode *)

\* newMode and the inode disagree on being a directory
DirBitDiffers(newMode) == (newMode \cap ModeDir) # (attrs.Mode \cap ModeDir)

\* the call is refused and nothing of the inode has changed
Refused ==
    /\ last'.err \in {"ENOTDIR", "EISDIR"} /\ ~last'.changed
    /\ attrs'.Mode = attrs.Mode
    /\ inode'.userMetadata = inode.userMetadata
    /\ inode'.userMetadataDirty = inode.userMetadataDirty

\* C16 as stated: with EnableSpecials off a newMode whose directory bit
\* differs from the inode's is refused with ENOTDIR/EISDIR, changed = false,
\* and Mode, userMetadata and userMetadataDirty stay; with EnableSpecials on
\* the type bits of Mode become those of newMode.
C16_AsStated ==
    [][last'.op = "setFileMode" =>
        /\ (~attrs.EnableSpecials /\ DirBitDiffers(last'.newMode)) => Refused
        /\ attrs.EnableSpecials =>
               attrs'.Mode \cap ModeType = last'.newMode \cap ModeType]_vars

\* C16: the type check is made when EnableSpecials is on. Then a newMode whose
\* directory bit differs from the inode's is refused (ENOTDIR when newMode is
\* a directory, EISDIR when it is not) with changed = false and Mode,
\* userMetadata and userMetadataDirty unchanged, and a newMode whose directory
\* bit agrees replaces the type bits. With EnableSpecials off no newMode is
\* refused and the type bits stay as they were.
C16_TypeCheckWhenSpecialsOn ==
    [][last'.op = "setFileMode" =>
        /\ (attrs.EnableSpecials /\ DirBitDiffers(last'.newMode)) =>
               /\ Refused
               /\ last'.err = IF last'.newMode \cap ModeDir # {}
                              THEN "ENOTDIR" ELSE "EISDIR"
        /\ (attrs.EnableSpecials /\ ~DirBitDiffers(last'.newMode)) =>
               /\ last'.err = "OK"
               /\ attrs'.Mode \cap ModeType = last'.newMode \cap ModeType
        /\ ~attrs.EnableSpecials =>
               /\ last'.err = "OK"
               /\ attrs'.Mode \cap ModeType = attrs.Mode \cap ModeType]_vars

\* a directory mode was refused on a file whose metadata an earlier call had
\* already marked modified
C16_Witness ==
    /\ last.op = "setFileMode" /\ last.err = "ENOTDIR"
    /\ attrs.EnableSpecials /\ ~inode.isDir
    /\ inode.userMetadataDirty = 2

----------------------------------------------------------------------------
(* cloud(): the binding directory and the path under it *)

\* the directory nearest to the inode, the inode itself included when it is a
\* directory, that carries a backend binding
BindingDir ==
    LET from == IF IsDirNode(tree[Len(tree)]) THEN Len(tree) ELSE Len(tree) - 1
    IN  CHOOSE b \in 1..from :
            HasCloud(tree[b]) /\ \A j \in (b + 1)..from : ~HasCloud(tree[j])

RECURSIVE JoinNames(_, _)
\* the names of the nodes lo..hi joined with "/"
JoinNames(lo, hi) ==
    IF lo > hi THEN <<>>
    ELSE IF lo = hi THEN tree[lo].Name
    ELSE tree[lo].Name \o <<"/">> \o JoinNames(lo + 1, hi)

\* the prefix the binding directory supplies: its mount prefix, none for the
\* error backend or a backend that fails to initialise
SuppliedPrefix ==
    LET d == Val(tree[BindingDir].dir)
    IN  IF Val(d.cloud).kind = "InitError" \/ ~Val(d.cloud).initOK THEN <<>>
        ELSE d.mountPrefix

\* a relative path under the supplied prefix
KeyOf(rel) == IF rel = <<>> THEN TrimRightSlash(SuppliedPrefix) ELSE SuppliedPrefix \o rel

\* C17 as stated: cloud() returns the backend of the nearest directory with a
\* binding, and on a directory inode the path leaves out the directory's own
\* name: it is the prefix and the names strictly between the binding
\* directory and the inode.
C17_AsStated ==
    [][last'.op = "cloud" =>
        /\ last'.cloud = Val(tree[BindingDir].dir).cloud
        /\ IsDirNode(tree[Len(tree)]) =>
               last'.path = KeyOf(JoinNames(BindingDir + 1, Len(tree) - 1))]_vars

\* C17: cloud() returns the backend of the nearest directory with a binding
\* (the inode itself when it is a directory with one), and the path is that
\* directory's prefix followed by the names of every node below it down to
\* and including the inode, file or directory; only the binding directory's
\* own name is left out. With nothing below the binding directory the path is
\* the prefix without trailing slashes.
C17_PathBelowBinding ==
    [][last'.op = "cloud" =>
        /\ last'.cloud = Val(tree[BindingDir].dir).cloud
        /\ last'.path = KeyOf(JoinNames(BindingDir + 1, Len(tree)))]_vars

\* cloud() was called on a directory without a binding two levels below the
\* directory that has one, with a prefix
C17_Witness ==
    /\ last.op = "cloud"
    /\ Len(tree) = 3 /\ IsDirNode(tree[3]) /\ BindingDir = 1
    /\ SuppliedPrefix # <<>>
    /\ last.path = SuppliedPrefix \o tree[2].Name \o <<"/">> \o tree[3].Name

----------------------------------------------------------------------------
(* Ref against a DeRef that has reached zero *)

\* C18: whenever a DeRef step removes the inode from fs.inodes and resets its
\* cache, the reference count is zero at that moment: no interleaving of the
\* lock-free Ref with DeRef forgets an inode that is referenced.
C18_NoForgetWhileReferenced ==
    [][(last'.op = "DeRef" /\ InTable /\ ~InTable') => refcnt' = 0]_vars

----------------------------------------------------------------------------
(* Locally modified metadata and the cache state *)

\* C19: metadata marked locally modified (userMetadataDirty = 2) is never on
\* an inode whose cache state is CACHED, whatever SetXattr, RemoveXattr and
\* SetFromBlobItem calls came before.
C19_DirtyMetadataNotCached ==
    inode.userMetadataDirty = 2 => inode.CacheState # ST_CACHED

----------------------------------------------------------------------------
(* The xattr calls and the cache state *)

XattrWrites == {"SetXattr", "RemoveXattr"}

\* C20: the only change SetXattr and RemoveXattr make to CacheState is from
\* CACHED to MODIFIED; a call that finds the inode CREATED, MODIFIED or
\* DELETED leaves CacheState as it is and does not wake the flusher.
C20_OnlyCachedToModified ==
    [][last'.op \in XattrWrites =>
        /\ \/ inode'.CacheState = inode.CacheState
           \/ inode.CacheState = ST_CACHED /\ inode'.CacheState = ST_MODIFIED
        /\ inode.CacheState \in {ST_CREATED, ST_MODIFIED, ST_DELETED} =>
               /\ inode'.CacheState = inode.CacheState
               /\ ~last'.woke
               /\ flusherWoken' = flusherWoken]_vars

\* a RemoveXattr removed a key from a DELETED inode, which stayed DELETED
C20_Witness ==
    /\ last.op = "RemoveXattr" /\ last.err = "OK"
    /\ last.found.CacheState = ST_DELETED
    /\ inode.CacheState = ST_DELETED
    /\ inode.userMetadataDirty = 2
    /\ ~last.woke

====
